---- MODULE Spec2Model ----
(***************************************************************************)
(* Request admission and orchestration layer of the IndexTTS API service:  *)
(* the three TTS endpoints of api_server.py, IndexTTSAPIHandler's          *)
(* generate_speech and the ConcurrencyController of indextts/api_handler.  *)
(*                                                                         *)
(* One step of the model is one uninterrupted run of a coroutine on the    *)
(* event loop (from one suspension point to the next), or one step of an   *)
(* executor thread.                                                        *)
(***************************************************************************)
EXTENDS Integers, Sequences, FiniteSets, TLC

\* ------------------------------------------------------------- bounds
\* Number of requests the service receives in one behaviour.
NumReq == 2
\* Configured tier capacities (config.concurrency.max_concurrent_*).
MaxShort == 1
MaxMedium == 1
MaxLong == 1
\* Longest text length for which the tier choice is tabulated.
MaxTextLen == 302
\* Number of direct calls of the controller's methods in one behaviour.
MaxOps == 6
\* Largest configured cache size (config.cache.max_cached_prompts).
MaxSize == 2
\* Number of threads that use the cache at the same time.
NumThreads == 2
\* The clock: the ticks in one second, and the last tick of a behaviour.
TicksPerSecond == 2
MaxTime == 3

\* ------------------------------------------------- program constants
ShortMax == 100
MediumMax == 300
EmoVecLen == 8

Req == 1 .. NumReq
Tiers == {"short", "medium", "long"}
None == "None"

\* ------------------------------------------------------------- inputs

\* A text is its length and the number of those characters that are
\* leading or trailing whitespace.
Texts ==
  { [len |-> 0, pad |-> 0], [len |-> 2, pad |-> 2],
    [len |-> ShortMax, pad |-> 0], [len |-> ShortMax + 1, pad |-> 1],
    [len |-> MediumMax, pad |-> 0], [len |-> MediumMax + 1, pad |-> 0] }

\* The texts sent to the emotion and advanced endpoints.
EmoTexts == { x \in Texts : x.len \in {2, ShortMax} }

\* prompt_config: the index -> path tables of the resolver.
Prompts == [p1 |-> "prompts/p1.wav"]
Emotions == [e1 |-> "emotions/e1.wav"]
Ids == {None, "p1", "e1", "zz"}

\* The emo_vector form field: absent, or a string that is not JSON, a JSON
\* scalar, or a JSON array of n numbers.
NoVec == [kind |-> "none", n |-> 0]
RawVecs ==
  { NoVec, [kind |-> "garbage", n |-> 0], [kind |-> "scalar", n |-> 0] }
    \cup { [kind |-> "list", n |-> k] : k \in (EmoVecLen - 1) .. (EmoVecLen + 1) }

\* ------------------------------------------------------ pure helpers
Max(a, b) == IF a >= b THEN a ELSE b

\* Fault: the thresholds are exclusive.
get_semaphore_Exclusive(text_length) ==
  IF text_length < ShortMax THEN "short"
  ELSE IF text_length < MediumMax THEN "medium"
  ELSE "long"

\* ConcurrencyController.get_semaphore
get_semaphore(text_length) ==
  IF text_length <= ShortMax THEN "short"
  ELSE IF text_length <= MediumMax THEN "medium"
  ELSE "long"

\* ConcurrencyController.__init__: the initial value of each semaphore.
Capacity(t) ==
  CASE t = "short" -> MaxShort
    [] t = "medium" -> MaxMedium
    [] t = "long" -> MaxLong

\* Faults: an acquire that takes no permit, a release that returns none.
acquire_NoPermit(s, t) == s
release_NoPermit(s, t) == s

\* Fault: one limit for all tiers.
locked_AnyTier(s, t) == \E u \in DOMAIN s : s[u] <= 0

\* asyncio.Semaphore: locked(), and the value after acquire() / release().
locked(s, t) == s[t] <= 0
acquire(s, t) == [s EXCEPT ![t] = @ - 1]
release(s, t) == [s EXCEPT ![t] = @ + 1]

\* Faults: decrement_task left out; decrement_task without the floor.
decrement_task_Skipped(n) == n
decrement_task_NoFloor(n) == n - 1

\* ConcurrencyController.increment_task / decrement_task on current_tasks.
increment_task(n) == n + 1
decrement_task(n) == Max(0, n - 1)

\* IndexTTSAPIHandler.get_prompt_path / get_emotion_path
get_prompt_path(index) ==
  IF index \in DOMAIN Prompts THEN Prompts[index] ELSE None
get_emotion_path(emo_index) ==
  IF emo_index \in DOMAIN Emotions THEN Emotions[emo_index] ELSE None

\* Fault: the text is tested without strip().
IsEmptyText_NoStrip(text) == text.len = 0

\* `not input_text or len(input_text.strip()) == 0`
strip(text) == [len |-> text.len - text.pad, pad |-> 0]
IsEmptyText(text) == text.len = 0 \/ strip(text).len = 0

\* json.loads of the emo_vector field: raises on a non-JSON string,
\* otherwise yields the value it denotes.
JsonError == [type |-> "JSONDecodeError", len |-> 0]
json_loads(raw) ==
  CASE raw.kind = "garbage" -> JsonError
    [] raw.kind = "scalar" -> [type |-> "number", len |-> 0]
    [] raw.kind = "list" -> [type |-> "list", len |-> raw.n]
    [] OTHER -> JsonError
NoneVec == [type |-> "None", len |-> 0]
\* Fault: only too short a vector is refused.
BadVecShape_TooShort(v) == v.type # "list" \/ v.len < EmoVecLen

\* `not isinstance(emo_vec, list) or len(emo_vec) != 8`
BadVecShape(v) == v.type # "list" \/ v.len # EmoVecLen

\* ----------------------------------------------------------- requests
\* The form fields of a request.  The basic endpoint has no emotion
\* fields; the other two require `index` and take no prompt upload.
Requests ==
  { [ep |-> "tts", text |-> x, index |-> i, emo_index |-> None,
     emo_vector |-> NoVec, prompt_audio |-> u] :
       x \in Texts, i \in Ids \ {"e1"}, u \in BOOLEAN }
  \cup
  { [ep |-> e, text |-> x, index |-> i, emo_index |-> m,
     emo_vector |-> v, prompt_audio |-> FALSE] :
       e \in {"emotion", "advanced"}, x \in EmoTexts, i \in {"p1", "zz"},
       m \in Ids, v \in RawVecs }

\* What an endpoint does before it calls generate_speech: an error
\* response, or the arguments of the call.
Reject(code) ==
  [error |-> code, prompt_path |-> None, emo_audio_path |-> None,
   emo_vector |-> NoneVec]
Call(prompt_path, emo_audio_path, emo_vec) ==
  [error |-> "", prompt_path |-> prompt_path,
   emo_audio_path |-> emo_audio_path, emo_vector |-> emo_vec]

\* api_server.generate_tts, up to the call of generate_speech
generate_tts(r) ==
  IF IsEmptyText(r.text) THEN Reject("EMPTY_TEXT")
  ELSE IF r.index # None THEN
    IF get_prompt_path(r.index) = None THEN Reject("INDEX_NOT_FOUND")
    ELSE Call(get_prompt_path(r.index), None, NoneVec)
  ELSE IF r.prompt_audio THEN Call("tmp/prompt.wav", None, NoneVec)
  ELSE Reject("MISSING_PROMPT")

\* The emotion reference of generate_tts_emotion / generate_tts_advanced:
\* the emotion table first, then the speaker table.
ResolveEmotion(emo_index) ==
  IF get_emotion_path(emo_index) # None THEN get_emotion_path(emo_index)
  ELSE get_prompt_path(emo_index)

\* api_server.generate_tts_emotion, up to the call of generate_speech
generate_tts_emotion(r) ==
  IF IsEmptyText(r.text) THEN Reject("EMPTY_TEXT")
  ELSE IF get_prompt_path(r.index) = None THEN Reject("INDEX_NOT_FOUND")
  ELSE IF r.emo_index # None /\ ResolveEmotion(r.emo_index) = None
    THEN Reject("EMO_INDEX_NOT_FOUND")
  ELSE IF r.emo_vector # NoVec /\ json_loads(r.emo_vector) = JsonError
    THEN Reject("INVALID_EMO_VECTOR_FORMAT")
  ELSE IF r.emo_vector # NoVec /\ BadVecShape(json_loads(r.emo_vector))
    THEN Reject("INVALID_EMO_VECTOR")
  ELSE Call(get_prompt_path(r.index),
            IF r.emo_index # None THEN ResolveEmotion(r.emo_index) ELSE None,
            IF r.emo_vector # NoVec THEN json_loads(r.emo_vector) ELSE NoneVec)

\* api_server.generate_tts_advanced, up to the call of generate_speech
generate_tts_advanced(r) ==
  IF IsEmptyText(r.text) THEN Reject("EMPTY_TEXT")
  ELSE IF get_prompt_path(r.index) = None THEN Reject("INDEX_NOT_FOUND")
  ELSE IF r.emo_vector # NoVec
          /\ (json_loads(r.emo_vector) = JsonError
              \/ BadVecShape(json_loads(r.emo_vector)))
    THEN Reject("INVALID_EMO_VECTOR")
  ELSE Call(get_prompt_path(r.index),
            IF r.emo_index # None THEN ResolveEmotion(r.emo_index) ELSE None,
            IF r.emo_vector # NoVec THEN json_loads(r.emo_vector) ELSE NoneVec)

\* The requests the service handles besides the observed one: well-formed
\* basic requests of every text length.  (A request that fails validation
\* changes no state of the service, see Arrive.)
Traffic ==
  { r \in Requests : r.ep = "tts" /\ r.index = "p1" /\ ~r.prompt_audio
                       /\ ~IsEmptyText(r.text) }

Endpoint(r) ==
  CASE r.ep = "tts" -> generate_tts(r)
    [] r.ep = "emotion" -> generate_tts_emotion(r)
    [] r.ep = "advanced" -> generate_tts_advanced(r)

\* ------------------------------------------------- backend and response
\* What tts.infer does in the executor thread: it returns the output path
\* (the file written or not), returns None, or raises an exception.
NoOutcome == [kind |-> "none", type |-> "", text |-> ""]
Returned(type, text) == [kind |-> "returned", type |-> type, text |-> text]
Raised(type, text) == [kind |-> "raised", type |-> type, text |-> text]
\* The output files that exist when generate_speech has returned.
Files == {"out.wav"}
Outcomes ==
  { Returned("str", "out.wav"), Returned("str", "missing.wav"),
    Returned("NoneType", None),
    Raised("RuntimeError", "CUDA out of memory"), Raised("RuntimeError", ""),
    Raised("KeyError", "spk") }
\* The outcomes of the backend calls of Spec: one artifact, one error.
PlainOutcomes ==
  { Returned("str", "out.wav"), Raised("RuntimeError", "CUDA out of memory") }

\* str(e) of the exception a backend call raised: the message of a
\* one-argument exception, "" without arguments; KeyError gives the repr of
\* its key.
str(e) ==
  IF e.type = "KeyError" THEN
    CASE e.text = "spk" -> "'spk'"
      [] OTHER -> "''"
  ELSE e.text

\* What generate_speech returns for the outcome of its backend call:
\* `return True, result, info` or `return False, None, {"error": str(e)}`.
\* info is given by its "error" entry (None: the key is absent).
Return(o) ==
  IF o.kind = "returned"
    THEN [success |-> TRUE, result |-> o.text, error |-> None]
    ELSE [success |-> FALSE, result |-> None, error |-> str(o)]

\* audio_to_base64 of the output file.
audio_to_base64(audio_path) ==
  CASE audio_path = "out.wav" -> "b3V0Lndhdg=="
    [] OTHER -> "AA=="

\* The response of an endpoint.
NoResponse == [success |-> FALSE, error |-> None, audio_base64 |-> None,
               message |-> ""]
TTSResponse(success, message, audio_base64, error) ==
  [success |-> success, error |-> error, audio_base64 |-> audio_base64,
   message |-> message]

\* Fault: the endpoint answers every failure with one fixed text.
Respond_Generic(s) ==
  IF s.success /\ s.result # None /\ s.result \in Files
    THEN TTSResponse(TRUE, "Audio generated successfully",
                     audio_to_base64(s.result), None)
    ELSE TTSResponse(FALSE, "Generation failed", None, "Generation failed")

\* The endpoints after generate_speech has returned s = (success, result,
\* info): `if success and result and os.path.exists(result)` ... else
\* `info.get('error', 'Unknown error')`.
Respond(s) ==
  IF s.success /\ s.result # None /\ s.result \in Files
    THEN TTSResponse(TRUE, "Audio generated successfully",
                     audio_to_base64(s.result), None)
    ELSE TTSResponse(FALSE, "Generation failed", None,
                     IF s.error # None THEN s.error ELSE "Unknown error")

\* ------------------------------------------------------ temporary files
\* int(time.time()) at tick t
int(t) == t \div TicksPerSecond
\* f"output_{int(time.time())}.wav" and f"prompt_{int(time.time())}.wav" in
\* tempfile.gettempdir()
OutputPath(t) == "tmp/output_" \o ToString(int(t)) \o ".wav"
UploadPath(t) == "tmp/prompt_" \o ToString(int(t)) \o ".wav"

\* What the files hold: the audio the backend made for call j, the
\* reference audio that request j uploaded.
Audio(j) == "audio of " \o ToString(j)
Upload(j) == "upload of " \o ToString(j)
\* base64.b64encode(audio_bytes).decode('utf-8')
b64encode(bytes) == "b64:" \o bytes

\* The file system: no files, open(path, 'wb').write(data),
\* os.path.exists, f.read(), and os.remove of those of `paths` that exist.
NoFiles == [f \in {} |-> ""]
write(files, path, data) ==
  [f \in DOMAIN files \cup {path} |-> IF f = path THEN data ELSE files[f]]
exists(files, path) == path \in DOMAIN files
read(files, path) == files[path]
remove_all(files, paths) == [f \in DOMAIN files \ paths |-> files[f]]

\* The endpoint after generate_speech has returned s = (success, result,
\* info), with the files as they are then: the file at `result` is read.
RespondFrom(s, files) ==
  IF s.success /\ s.result # None /\ exists(files, s.result)
    THEN TTSResponse(TRUE, "Audio generated successfully",
                     b64encode(read(files, s.result)), None)
    ELSE TTSResponse(FALSE, "Generation failed", None,
                     IF s.error # None THEN s.error ELSE "Unknown error")

\* --------------------------------------------------------- PromptCache
\* Keys and cached values.  There are two more keys than the largest
\* cache holds.
CacheKeys == 1 .. (MaxSize + 2)
CacheValues == {"a", "b"}
Threads == 1 .. NumThreads

\* PromptCache.__init__: the empty dict.
EmptyCache == [k \in {} |-> None]
\* len(self.cache)
len(c) == Cardinality(DOMAIN c)
\* `key in self.access_order`
InOrder(order, key) == \E i \in 1 .. Len(order) : order[i] = key
\* list.remove(key): the list without the first occurrence of key.
remove(order, key) ==
  LET i == CHOOSE n \in 1 .. Len(order) :
             order[n] = key /\ \A m \in 1 .. (n - 1) : order[m] # key
  IN SubSeq(order, 1, i - 1) \o SubSeq(order, i + 1, Len(order))

\* The outcome of a method: the two fields afterwards, the value returned
\* and the exception raised ("" when none).
Outcome(c, order, ret, raised) ==
  [cache |-> c, access_order |-> order, ret |-> ret, raised |-> raised]

\* Fault: a hit does not update the access order.
get_NoTouch(c, order, key) ==
  IF key \in DOMAIN c THEN Outcome(c, order, c[key], "")
  ELSE Outcome(c, order, None, "")

\* PromptCache.get
get(c, order, key) ==
  IF key \in DOMAIN c THEN
    IF InOrder(order, key)
      THEN Outcome(c, Append(remove(order, key), key), c[key], "")
      ELSE Outcome(c, order, None, "ValueError")
  ELSE Outcome(c, order, None, "")

\* Faults: the eviction starts one entry late; the most recently used
\* entry is evicted; a full cache evicts also for a key it already holds.
put_evict_Late(c, order, m, key) ==
  IF len(c) > m /\ key \notin DOMAIN c THEN
    IF order = << >> THEN Outcome(c, order, None, "IndexError")
    ELSE Outcome([k \in DOMAIN c \ {Head(order)} |-> c[k]], Tail(order),
                 None, "")
  ELSE Outcome(c, order, None, "")
put_evict_Newest(c, order, m, key) ==
  IF len(c) >= m /\ key \notin DOMAIN c THEN
    IF order = << >> THEN Outcome(c, order, None, "IndexError")
    ELSE Outcome([k \in DOMAIN c \ {order[Len(order)]} |-> c[k]],
                 SubSeq(order, 1, Len(order) - 1), None, "")
  ELSE Outcome(c, order, None, "")
put_evict_AlsoExisting(c, order, m, key) ==
  IF len(c) >= m THEN
    IF order = << >> THEN Outcome(c, order, None, "IndexError")
    ELSE Outcome([k \in DOMAIN c \ {Head(order)} |-> c[k]], Tail(order),
                 None, "")
  ELSE Outcome(c, order, None, "")

\* PromptCache.put, first part: `if len(self.cache) >= self.max_size and
\* key not in self.cache: oldest = self.access_order.pop(0); del
\* self.cache[oldest]`.
put_evict(c, order, m, key) ==
  IF len(c) >= m /\ key \notin DOMAIN c THEN
    IF order = << >> THEN Outcome(c, order, None, "IndexError")
    ELSE IF Head(order) \notin DOMAIN c
      THEN Outcome(c, Tail(order), None, "KeyError")
    ELSE Outcome([k \in DOMAIN c \ {Head(order)} |-> c[k]], Tail(order),
                 None, "")
  ELSE Outcome(c, order, None, "")

\* PromptCache.put, second part: `if key in self.cache:
\* self.access_order.remove(key)`, then the store and the append.
put_store(c, order, key, value) ==
  IF key \in DOMAIN c /\ ~InOrder(order, key)
    THEN Outcome(c, order, None, "ValueError")
  ELSE Outcome([k \in DOMAIN c \cup {key} |-> IF k = key THEN value ELSE c[k]],
               Append(IF key \in DOMAIN c THEN remove(order, key) ELSE order,
                      key),
               None, "")

\* PromptCache.put
put(c, order, m, key, value) ==
  IF put_evict(c, order, m, key).raised # "" THEN put_evict(c, order, m, key)
  ELSE put_store(put_evict(c, order, m, key).cache,
                 put_evict(c, order, m, key).access_order, key, value)

\* Fault: clear empties the access order and keeps the entries.
clear_OnlyOrder(c, order) == Outcome(c, << >>, None, "")

\* PromptCache.clear
clear(c, order) == Outcome(EmptyCache, << >>, None, "")

\* PromptCache.size
size(c) == len(c)

\* -------------------------------------------------- ParameterConverter
\* Python values: a string, an int, a float (in tenths), True and None.
PyStr(x) == [type |-> "str", str |-> x, int |-> 0]
PyInt(n) == [type |-> "int", str |-> "", int |-> n]
PyFloat(tenths) == [type |-> "float", str |-> "", int |-> tenths]
PyTrue == [type |-> "bool", str |-> "True", int |-> 1]
PyNone == [type |-> "NoneType", str |-> "None", int |-> 0]

\* The defaults of convert_glm_to_indextts.
DefaultTopK == 25
DefaultMaxMelTokens == 1500
Defaults ==
  [temperature |-> PyFloat(8), top_p |-> PyFloat(8),
   repetition_penalty |-> PyFloat(100), length_penalty |-> PyFloat(0),
   max_mel_tokens |-> PyInt(DefaultMaxMelTokens)]

\* A dict: the empty one, d.get(k, default), and d after d[k] = v.
EmptyDict == [k \in {} |-> PyNone]
dict_get(d, k, default) == IF k \in DOMAIN d THEN d[k] ELSE default
dict_set(d, k, v) == [x \in DOMAIN d \cup {k} |-> IF x = k THEN v ELSE d[x]]
\* The dicts with some of the keys `keys`, each with one of the values
\* that `choices` lists for it.
RECURSIVE DictsOf(_, _)
DictsOf(choices, keys) ==
  IF keys = {} THEN {EmptyDict}
  ELSE LET k == CHOOSE x \in keys : TRUE
           rest == DictsOf(choices, keys \ {k})
       IN rest \cup { dict_set(d, k, v) : d \in rest, v \in choices[k] }

\* str.lower()
lower(x) ==
  CASE x = "RAS" -> "ras"
    [] x = "TopK" -> "topk"
    [] x = "Greedy" -> "greedy"
    [] OTHER -> x

\* The legacy maps given to the converter: every field may be missing;
\* sample_method may be any value a caller's dict holds.
SampleMethods ==
  { PyStr("ras"), PyStr("RAS"), PyStr("topk"), PyStr("TopK"), PyStr("greedy"),
    PyNone, PyInt(1) }
Samplings == { PyInt(1), PyInt(DefaultTopK), PyInt(50) }
LegacyChoices ==
  [sample_method |-> SampleMethods,
   sampling |-> Samplings,
   beam_size |-> { PyInt(1), PyInt(4) },
   temperature |-> { PyFloat(5) },
   top_p |-> { PyFloat(9) },
   repetition_penalty |-> { PyFloat(12) },
   length_penalty |-> { PyFloat(10) },
   max_mel_tokens |-> { PyInt(600) }]
LegacyInputs == DictsOf(LegacyChoices, DOMAIN LegacyChoices)

\* What the converter does: the dict returned, or the exception raised.
Converted(result) == [raised |-> "", result |-> result]
ConvertRaised(type) == [raised |-> type, result |-> EmptyDict]
NoBundle == [raised |-> "not called", result |-> EmptyDict]

\* Fault: "topk" takes the default whatever the sampling field.
SampleMethodPart_DefaultTopK(p, sample_method) ==
  IF sample_method = "ras" THEN dict_set(EmptyDict, "do_sample", PyTrue)
  ELSE IF sample_method = "topk"
    THEN dict_set(dict_set(EmptyDict, "do_sample", PyTrue),
                  "top_k", PyInt(DefaultTopK))
  ELSE EmptyDict
\* convert_glm_to_indextts, lines 126-131: the sample method
SampleMethodPart(p, sample_method) ==
  IF sample_method = "ras" THEN dict_set(EmptyDict, "do_sample", PyTrue)
  ELSE IF sample_method = "topk"
    THEN dict_set(dict_set(EmptyDict, "do_sample", PyTrue),
                  "top_k", dict_get(p, "sampling", PyInt(DefaultTopK)))
  ELSE EmptyDict
\* lines 133-135: the beam size
BeamPart(p, result) ==
  IF "beam_size" \in DOMAIN p THEN dict_set(result, "num_beams", p["beam_size"])
  ELSE result
\* Fault: the sampling field is never copied.
SamplingPart_Never(p, sample_method, result) == result
\* lines 137-139: the sampling field
SamplingPart(p, sample_method, result) ==
  IF "sampling" \in DOMAIN p /\ sample_method # "topk"
    THEN dict_set(result, "top_k", p["sampling"])
  ELSE result
\* Fault: the defaults replace what the input supplies.
DefaultsPart_Fixed(p, result) ==
  [k \in DOMAIN result \cup DOMAIN Defaults |->
     IF k \in DOMAIN Defaults THEN Defaults[k] ELSE result[k]]
\* lines 141-146: the other generation parameters
DefaultsPart(p, result) ==
  [k \in DOMAIN result \cup DOMAIN Defaults |->
     IF k \in DOMAIN Defaults THEN dict_get(p, k, Defaults[k]) ELSE result[k]]

\* ParameterConverter.convert_glm_to_indextts
convert_glm_to_indextts(p) ==
  LET raw == dict_get(p, "sample_method", PyStr("ras")) IN
  IF raw.type # "str" THEN ConvertRaised("AttributeError")
  ELSE LET sample_method == lower(raw.str) IN
    Converted(DefaultsPart(p,
      SamplingPart(p, sample_method,
        BeamPart(p, SampleMethodPart(p, sample_method)))))

\* -------------------------------------------------------------- state
VARIABLES
  now,             \* the clock, time.time(), in ticks
  prompt_path,     \* generate_tts's local `prompt_path` of each request
  output_path,     \* generate_tts's local `output_path` of each request
  temp_files,      \* generate_tts's local `temp_files` of each request
  fs,              \* the files of the temporary directory and what they hold
  max_size,        \* PromptCache.max_size
  cache,           \* PromptCache.cache
  access_order,    \* PromptCache.access_order
  lock,            \* PromptCache.lock: the thread that holds it, or 0
  cthread,         \* where each thread that uses the cache is
  last,            \* history: the cache method that completed last, and
                   \* what it found when it was a put
  touch,           \* history: the last hit of get, while only new keys
                   \* have been put since
  cleared,         \* history: the last clear, the keys it removed and the
                   \* keys stored since, while those are at most max_size
  recency,         \* history: the keys of the entries, least recently
                   \* touched (by a get that hit, or a put) first
  params,          \* the argument of convert_glm_to_indextts
  bundle,          \* what convert_glm_to_indextts returned
  backend,         \* what each call's tts.infer returned or raised
  response,        \* the response each request that made a call was given
  ops,             \* history: the controller methods called directly
  sem,             \* ConcurrencyController.semaphore_*: _value per tier
  current_tasks,   \* ConcurrencyController.current_tasks
  total_requests,  \* ConcurrencyController.total_requests
  pc,              \* where each generate_speech call is
  tier,            \* the tier of each call's text (generate_speech's local
                   \* `semaphore`), while the call or its thread lives
  thread,          \* the executor work item (_sync_generate) of each call
  result,          \* what each generate_speech call returned
  calls,           \* history: how often the backend was invoked per call
  admitted,        \* history: the calls that ever entered `async with`
  watch            \* the observed request and what its endpoint did first

fileVars == << now, prompt_path, output_path, temp_files, fs >>
cacheVars ==
  << max_size, cache, access_order, lock, cthread, last, touch, recency,
     cleared >>
convVars == << params, bundle >>
serviceVars ==
  << sem, current_tasks, total_requests, pc, tier, thread, result, calls,
     admitted, watch, backend, response, ops >>
vars ==
  << sem, current_tasks, total_requests, pc, tier, thread, result, calls,
     admitted, watch, backend, response, ops, cacheVars, convVars,
                  fileVars >>

\* A call is inside the `async with semaphore` body.
InBody(j) == pc[j] = "awaiting"
Holders(t) == { j \in Req : InBody(j) /\ tier[j] = t }
\* The backend (tts.infer) is executing in an executor thread.
Executing(t) == { j \in Req : thread[j] = "running" /\ tier[j] = t }

\* ConcurrencyController.get_stats: the snapshot it returns.
get_stats ==
  [current_tasks |-> current_tasks,
   total_requests |-> total_requests,
   max_concurrent_short |-> sem["short"],
   max_concurrent_medium |-> sem["medium"],
   max_concurrent_long |-> sem["long"]]

\* A thread that is not in a method of the cache.
NoFound == [n |-> 0, held |-> FALSE, oldest |-> 0]
\* What a put of `key` finds: the number of keys in the access order,
\* whether the key is one of them, and the first one.
Found(order, key) ==
  [n |-> Len(order), held |-> InOrder(order, key),
   oldest |-> IF order = << >> THEN 0 ELSE Head(order)]
IdleThread ==
  [pc |-> "idle", key |-> 0, value |-> None, n |-> 0, was |-> NoFound]
NoOp == [op |-> "none", key |-> 0, value |-> None, ret |-> None, n |-> 0,
         raised |-> "", was |-> NoFound]
NoClear == [active |-> FALSE, prior |-> {}, added |-> {}]
NoTouch == [active |-> FALSE, key |-> 0, others |-> {}, oldest |-> FALSE]
\* PromptCache.__init__ with max_size = m
InitCache(m) ==
  /\ max_size = m
  /\ cache = EmptyCache
  /\ access_order = << >>
  /\ lock = 0
  /\ cthread = [t \in Threads |-> IdleThread]
  /\ last = NoOp
  /\ touch = NoTouch
  /\ recency = << >>
  /\ cleared = NoClear
\* No request has been received and the temporary directory is empty.
InitFiles ==
  /\ now = 0
  /\ prompt_path = [j \in Req |-> None]
  /\ output_path = [j \in Req |-> None]
  /\ temp_files = [j \in Req |-> {}]
  /\ fs = NoFiles
\* The converter has not been called.
InitConv ==
  /\ params = EmptyDict
  /\ bundle = NoBundle

\* One request of the behaviour is observed; its form fields are any of
\* Requests.  It arrives at any time, among the other traffic.
InitService ==
  /\ sem = [t \in Tiers |-> Capacity(t)]
  /\ current_tasks = 0
  /\ total_requests = 0
  /\ pc = [j \in Req |-> "idle"]
  /\ tier = [j \in Req |-> None]
  /\ thread = [j \in Req |-> "none"]
  /\ result = [j \in Req |-> ""]
  /\ calls = [j \in Req |-> 0]
  /\ admitted = {}
  /\ watch \in { [req |-> r, out |-> Reject(""), job |-> 0, seen |-> FALSE] :
                 r \in Requests }
  /\ backend = [j \in Req |-> NoOutcome]
  /\ response = [j \in Req |-> NoResponse]
  /\ ops = << >>

Init == InitCache(MaxSize) /\ InitConv /\ InitService /\ InitFiles

\* Fault: increment_task counts the call in flight but not in the total.
EnterBody_NoTotal(j, t) ==
  /\ sem' = acquire(sem, t)
  /\ current_tasks' = increment_task(current_tasks)
  /\ total_requests' = total_requests
  /\ pc' = [pc EXCEPT ![j] = "awaiting"]
  /\ thread' = [thread EXCEPT ![j] = "queued"]
  /\ admitted' = admitted \cup {j}

\* `async with semaphore:` entered, increment_task(), run_in_executor(...):
\* the call now awaits the executor's future.
EnterBody(j, t) ==
  /\ sem' = acquire(sem, t)
  /\ current_tasks' = increment_task(current_tasks)
  /\ total_requests' = total_requests + 1
  /\ pc' = [pc EXCEPT ![j] = "awaiting"]
  /\ thread' = [thread EXCEPT ![j] = "queued"]
  /\ admitted' = admitted \cup {j}

\* Fault: the permit is taken by hand and never given back.
LeaveBody_NoRelease(j) ==
  /\ current_tasks' = decrement_task(current_tasks)
  /\ sem' = sem

\* `finally: decrement_task()` and then the semaphore's __aexit__.
LeaveBody(j) ==
  /\ current_tasks' = decrement_task(current_tasks)
  /\ sem' = release(sem, tier[j])

\* The call the next request that passes validation makes.
FreeJob(j) == pc[j] = "idle" /\ \A k \in Req : k < j => pc[k] # "idle"

\* generate_speech up to its first suspension: it takes the tier's
\* semaphore if it is free and otherwise waits for it.
generate_speech(j, text) ==
  /\ tier' = [tier EXCEPT ![j] = get_semaphore(text.len)]
  /\ IF locked(sem, get_semaphore(text.len)) THEN
       /\ pc' = [pc EXCEPT ![j] = "waiting"]
       /\ UNCHANGED << sem, current_tasks, total_requests, thread, admitted >>
     ELSE EnterBody(j, get_semaphore(text.len))
  /\ UNCHANGED << result, calls, backend, response, ops, cacheVars, convVars >>

\* A request arrives and its endpoint runs to its first suspension: it
\* answers with a validation error, or calls generate_speech.  w says
\* that the request is the observed one.
Arrive(r, w) ==
  /\ w => (r = watch.req /\ ~watch.seen)
  /\ IF Endpoint(r).error # "" THEN
       /\ watch' = IF w THEN [watch EXCEPT !.out = Endpoint(r), !.seen = TRUE]
                   ELSE watch
       /\ UNCHANGED << sem, current_tasks, total_requests, pc, tier, thread,
                       result, calls, admitted, backend, response, ops, cacheVars, convVars,
                  fileVars >>
     ELSE
       \E j \in Req :
         /\ FreeJob(j)
         /\ watch' = IF w THEN [req |-> r, out |-> Endpoint(r), job |-> j,
                                seen |-> TRUE]
                     ELSE watch
         /\ generate_speech(j, r.text)
         /\ UNCHANGED fileVars

\* A call suspended in semaphore.acquire() is resumed with a permit.
Wakeup(j) ==
  /\ pc[j] = "waiting"
  /\ ~locked(sem, tier[j])
  /\ EnterBody(j, tier[j])
  /\ UNCHANGED << tier, result, calls, watch, backend, response, ops, cacheVars, convVars,
                  fileVars >>

\* Fault: the executor has a single worker thread.
ThreadStart_Serial(j) ==
  /\ thread[j] = "queued"
  /\ \A k \in Req : thread[k] # "running"
  /\ thread' = [thread EXCEPT ![j] = "running"]
  /\ calls' = [calls EXCEPT ![j] = @ + 1]
  /\ UNCHANGED << sem, current_tasks, total_requests, pc, tier, result,
                  admitted, watch, backend, response, ops, cacheVars, convVars,
                  fileVars >>

\* An executor thread takes the work item and calls _sync_generate.
ThreadStart(j) ==
  /\ thread[j] = "queued"
  /\ thread' = [thread EXCEPT ![j] = "running"]
  /\ calls' = [calls EXCEPT ![j] = @ + 1]
  /\ UNCHANGED << sem, current_tasks, total_requests, pc, tier, result,
                  admitted, watch, backend, response, ops, cacheVars, convVars,
                  fileVars >>

\* tts.infer returns (or raises) in the executor thread.  The outcome of a
\* call that was cancelled meanwhile is dropped.
ThreadEnd(j, outcome) ==
  /\ thread[j] = "running"
  /\ thread' = [thread EXCEPT ![j] =
                  IF InBody(j) THEN outcome.kind ELSE "none"]
  /\ backend' = [backend EXCEPT ![j] =
                   IF InBody(j) THEN outcome ELSE NoOutcome]
  /\ tier' = [tier EXCEPT ![j] = IF InBody(j) THEN @ ELSE None]
  /\ UNCHANGED << sem, current_tasks, total_requests, pc, result, calls,
                  admitted, watch, response, ops, cacheVars, convVars,
                  fileVars >>

\* Fault: decrement_task and the release are not in a `finally` / `async
\* with`, so an exception from the backend skips them.
Resume_NoFinally(j) ==
  /\ InBody(j)
  /\ thread[j] \in {"returned", "raised"}
  /\ IF thread[j] = "returned" THEN LeaveBody(j)
     ELSE UNCHANGED << sem, current_tasks >>
  /\ pc' = [pc EXCEPT ![j] = "done"]
  /\ result' = [result EXCEPT ![j] =
                  IF thread[j] = "returned" THEN "ok" ELSE "failed"]
  /\ thread' = [thread EXCEPT ![j] = "none"]
  /\ backend' = [backend EXCEPT ![j] = NoOutcome]
  /\ response' = [response EXCEPT ![j] = Respond(Return(backend[j]))]
  /\ tier' = [tier EXCEPT ![j] = None]
  /\ UNCHANGED << total_requests, calls, admitted, watch, ops, cacheVars, convVars,
                  fileVars >>

\* Fault: a backend failure is retried once inside the call.
Resume_Retry(j) ==
  /\ InBody(j)
  /\ thread[j] \in {"returned", "raised"}
  /\ IF thread[j] = "raised" /\ calls[j] < 2 THEN
       /\ thread' = [thread EXCEPT ![j] = "queued"]
       /\ backend' = [backend EXCEPT ![j] = NoOutcome]
       /\ UNCHANGED << sem, current_tasks, pc, result, tier, response >>
     ELSE
       /\ LeaveBody(j)
       /\ pc' = [pc EXCEPT ![j] = "done"]
       /\ result' = [result EXCEPT ![j] =
                       IF thread[j] = "returned" THEN "ok" ELSE "failed"]
       /\ thread' = [thread EXCEPT ![j] = "none"]
       /\ backend' = [backend EXCEPT ![j] = NoOutcome]
       /\ response' = [response EXCEPT ![j] = Respond(Return(backend[j]))]
       /\ tier' = [tier EXCEPT ![j] = None]
  /\ UNCHANGED << total_requests, calls, admitted, watch, ops, cacheVars, convVars,
                  fileVars >>

\* Fault: the error path resets the controller's bookkeeping.
Resume_ResetOnError(j) ==
  /\ InBody(j)
  /\ thread[j] \in {"returned", "raised"}
  /\ IF thread[j] = "returned" THEN LeaveBody(j)
     ELSE /\ current_tasks' = 0
          /\ sem' = [t \in Tiers |-> Capacity(t)]
  /\ pc' = [pc EXCEPT ![j] = "done"]
  /\ result' = [result EXCEPT ![j] =
                  IF thread[j] = "returned" THEN "ok" ELSE "failed"]
  /\ thread' = [thread EXCEPT ![j] = "none"]
  /\ backend' = [backend EXCEPT ![j] = NoOutcome]
  /\ response' = [response EXCEPT ![j] = Respond(Return(backend[j]))]
  /\ tier' = [tier EXCEPT ![j] = None]
  /\ UNCHANGED << total_requests, calls, admitted, watch, ops, cacheVars, convVars,
                  fileVars >>

\* The awaiting call is resumed with the executor's outcome: `return True,
\* result, info`, or the exception passes the `finally` and the `async
\* with` and is turned into `return False, None, {"error": ...}`.
Resume(j) ==
  /\ InBody(j)
  /\ thread[j] \in {"returned", "raised"}
  /\ LeaveBody(j)
  /\ pc' = [pc EXCEPT ![j] = "done"]
  /\ result' = [result EXCEPT ![j] =
                  IF thread[j] = "returned" THEN "ok" ELSE "failed"]
  /\ thread' = [thread EXCEPT ![j] = "none"]
  /\ backend' = [backend EXCEPT ![j] = NoOutcome]
  /\ response' = [response EXCEPT ![j] = Respond(Return(backend[j]))]
  /\ tier' = [tier EXCEPT ![j] = None]
  /\ UNCHANGED << total_requests, calls, admitted, watch, ops, cacheVars, convVars,
                  fileVars >>

\* Fault: a cancellation inside the body skips decrement_task and the
\* release.
Cancel_NoFinally(j) ==
  /\ pc[j] \in {"waiting", "awaiting"}
  /\ pc' = [pc EXCEPT ![j] = "cancelled"]
  /\ thread' = [thread EXCEPT ![j] = IF @ = "running" THEN "running" ELSE "none"]
  /\ backend' = [backend EXCEPT ![j] = NoOutcome]
  /\ tier' = [tier EXCEPT ![j] = IF thread[j] = "running" THEN @ ELSE None]
  /\ UNCHANGED << sem, current_tasks, total_requests, result, calls,
                  admitted, watch, response, ops, cacheVars, convVars,
                  fileVars >>

\* The call's task is cancelled (CancelledError is no Exception, so it
\* leaves generate_speech): while waiting for the semaphore, or while
\* awaiting the executor.  A queued work item is cancelled with it; one
\* that a thread is already running keeps running.
Cancel(j) ==
  /\ pc[j] \in {"waiting", "awaiting"}
  /\ pc' = [pc EXCEPT ![j] = "cancelled"]
  /\ IF InBody(j) THEN
       /\ LeaveBody(j)
       /\ thread' = [thread EXCEPT ![j] =
                       IF @ = "running" THEN "running" ELSE "none"]
     ELSE UNCHANGED << sem, current_tasks, thread >>
  /\ backend' = [backend EXCEPT ![j] = NoOutcome]
  /\ tier' = [tier EXCEPT ![j] = IF thread[j] = "running" THEN @ ELSE None]
  /\ UNCHANGED << total_requests, result, calls, admitted, watch, response,
                  ops, cacheVars, convVars,
                  fileVars >>

Next ==
  \/ \E r \in Traffic : Arrive(r, FALSE)
  \/ Arrive(watch.req, TRUE)
  \/ \E j \in Req : Wakeup(j)
  \/ \E j \in Req : ThreadStart(j)
  \/ \E j \in Req : \E o \in PlainOutcomes : ThreadEnd(j, o)
  \/ \E j \in Req : Resume(j)
  \/ \E j \in Req : Cancel(j)

Spec == Init /\ [][Next]_vars

\* The event loop runs every coroutine that is ready, the executor runs
\* every work item it was given, and every backend call ends.  Arrivals
\* and cancellations are up to the clients.
Fairness ==
  \A j \in Req :
    /\ WF_vars(Wakeup(j))
    /\ WF_vars(ThreadStart(j))
    /\ WF_vars(\E o \in PlainOutcomes : ThreadEnd(j, o))
    /\ WF_vars(Resume(j))

\* Every request is one that calls generate_speech (a request refused in
\* validation is answered in the step that handles it).
InitFair == Init /\ watch.req \in Traffic

FairSpec == InitFair /\ [][Next]_vars /\ Fairness

\* The controller's methods called directly, in any order (also a
\* decrement_task with no increment_task before it).
CtlIncrement ==
  /\ Len(ops) < MaxOps
  /\ current_tasks' = increment_task(current_tasks)
  /\ total_requests' = total_requests + 1
  /\ ops' = Append(ops, "increment_task")
  /\ UNCHANGED << sem, pc, tier, thread, result, calls, admitted, watch,
                  backend, response,
                  cacheVars, convVars,
                  fileVars >>

CtlDecrement ==
  /\ Len(ops) < MaxOps
  /\ current_tasks' = decrement_task(current_tasks)
  /\ ops' = Append(ops, "decrement_task")
  /\ UNCHANGED << sem, total_requests, pc, tier, thread, result, calls,
                  admitted, watch, backend, response,
                  cacheVars, convVars,
                  fileVars >>

NextCtl == CtlIncrement \/ CtlDecrement

SpecCtl == Init /\ [][NextCtl]_vars

\* The service handles the observed request alone, and its backend call
\* has every outcome.
NextOne ==
  \/ Arrive(watch.req, TRUE)
  \/ \E j \in Req : ThreadStart(j)
  \/ \E j \in Req : \E o \in Outcomes : ThreadEnd(j, o)
  \/ \E j \in Req : Resume(j)
  \/ \E j \in Req : Cancel(j)

SpecOne == Init /\ [][NextOne]_vars

\* ------------------------------------------- the cache, one caller
\* A method of the cache has returned or raised: the fields afterwards
\* and the record of the call.
Complete(op, key, value, o) ==
  /\ cache' = o.cache
  /\ access_order' = o.access_order
  /\ last' = [op |-> op, key |-> key, value |-> value, ret |-> o.ret,
              n |-> 0, raised |-> o.raised,
              was |-> IF op = "put" THEN Found(access_order, key) ELSE NoFound]

\* The hit that `touch` remembers (the key, the other keys the cache held
\* and whether the key was the least recently touched one), and what a
\* put leaves of it: it is kept while the keys put are new ones (never
\* cached since the hit).
Touched(k) ==
  [active |-> TRUE, key |-> k, others |-> DOMAIN cache \ {k},
   oldest |-> recency # << >> /\ Head(recency) = k]
StillTouched(k) ==
  IF touch.active /\ k \notin DOMAIN cache /\ k \notin touch.others
     /\ k # touch.key
    THEN touch ELSE NoTouch

\* The keys touched, oldest touch first, after a touch of k; and those of
\* them that still have an entry.
Without(order, k) == SelectSeq(order, LAMBDA x : x # k)
Stored(order, c) == SelectSeq(order, LAMBDA x : x \in DOMAIN c)

\* What a put of k leaves of the record of the last clear.
StillCleared(k) ==
  IF ~cleared.active \/ k \notin DOMAIN cache' THEN cleared
  ELSE IF Cardinality(cleared.added \cup {k}) > max_size THEN NoClear
  ELSE [cleared EXCEPT !.added = @ \cup {k}]

\* cache.get(k)
Get(k) ==
  /\ lock = 0
  /\ Complete("get", k, None, get(cache, access_order, k))
  /\ touch' = IF k \in DOMAIN cache THEN Touched(k) ELSE touch
  /\ recency' = IF k \in DOMAIN cache THEN Append(Without(recency, k), k)
                ELSE recency
  /\ UNCHANGED << max_size, lock, cthread, cleared, convVars, serviceVars,
                  fileVars >>

\* cache.put(k, v)
Put(k, v) ==
  /\ lock = 0
  /\ Complete("put", k, v, put(cache, access_order, max_size, k, v))
  /\ touch' = StillTouched(k)
  /\ recency' = Stored(Append(Without(recency, k), k), cache')
  /\ cleared' = StillCleared(k)
  /\ UNCHANGED << max_size, lock, cthread, convVars, serviceVars,
                  fileVars >>

\* cache.clear()
Clear ==
  /\ lock = 0
  /\ Complete("clear", 0, None, clear(cache, access_order))
  /\ touch' = NoTouch
  /\ recency' = Stored(recency, cache')
  /\ cleared' = [active |-> TRUE, prior |-> DOMAIN cache, added |-> {}]
  /\ UNCHANGED << max_size, lock, cthread, convVars, serviceVars,
                  fileVars >>

\* cache.size()
Size ==
  /\ last' = [op |-> "size", key |-> 0, value |-> None, ret |-> None,
              n |-> size(cache), raised |-> "", was |-> NoFound]
  /\ UNCHANGED << max_size, cache, access_order, lock, cthread, touch,
                  recency, cleared, convVars, serviceVars,
                  fileVars >>

NextCache ==
  \/ \E k \in CacheKeys : Get(k)
  \/ \E k \in CacheKeys : \E v \in CacheValues : Put(k, v)
  \/ Clear
  \/ Size

\* The service is idle; the cache has any configured size.
QuietRequest == CHOOSE r \in Requests : TRUE
InitQuiet == InitService /\ watch.req = QuietRequest /\ InitFiles
InitAnyCache == InitQuiet /\ InitConv /\ \E m \in 0 .. MaxSize : InitCache(m)

SpecCache == InitAnyCache /\ [][NextCache]_vars

\* ---------------------------------------- the cache, several threads
\* A step of a thread is what it does between two points at which another
\* thread can run.  The histories touch, recency and cleared follow the
\* calls of one caller only and stay as they are.
SeqHistory == << touch, recency, cleared >>

\* `with self.lock:` of get, put and clear: the thread enters when no
\* thread holds the lock.  n is the size the method finds.
TBegin(t, op, k, v) ==
  /\ cthread[t].pc = "idle"
  /\ lock = 0
  /\ lock' = t
  /\ cthread' = [cthread EXCEPT ![t] =
                   [pc |-> op, key |-> k, value |-> v, n |-> len(cache),
                    was |-> IF op = "put" THEN Found(access_order, k)
                            ELSE NoFound]]
  /\ UNCHANGED << max_size, cache, access_order, last, SeqHistory, convVars,
                  serviceVars, fileVars >>

\* The thread leaves its method and the lock: the fields afterwards and
\* the record of the call.
TComplete(t, op, o) ==
  /\ cache' = o.cache
  /\ access_order' = o.access_order
  /\ last' = [op |-> op, key |-> cthread[t].key, value |-> cthread[t].value,
              ret |-> o.ret, n |-> 0, raised |-> o.raised,
              was |-> cthread[t].was]
  /\ lock' = 0
  /\ cthread' = [cthread EXCEPT ![t] = IdleThread]

\* The body of get
TGet(t) ==
  /\ cthread[t].pc = "get"
  /\ TComplete(t, "get", get(cache, access_order, cthread[t].key))
  /\ UNCHANGED << max_size, SeqHistory, convVars, serviceVars,
                  fileVars >>

\* The body of put up to `del self.cache[oldest]`
TPutEvict(t) ==
  /\ cthread[t].pc = "put"
  /\ LET o == put_evict(cache, access_order, max_size, cthread[t].key) IN
       IF o.raised # "" THEN TComplete(t, "put", o)
       ELSE /\ cache' = o.cache
            /\ access_order' = o.access_order
            /\ cthread' = [cthread EXCEPT ![t].pc = "put_store"]
            /\ UNCHANGED << lock, last >>
  /\ UNCHANGED << max_size, SeqHistory, convVars, serviceVars,
                  fileVars >>

\* The rest of the body of put
TPutStore(t) ==
  /\ cthread[t].pc = "put_store"
  /\ TComplete(t, "put", put_store(cache, access_order, cthread[t].key,
                                   cthread[t].value))
  /\ UNCHANGED << max_size, SeqHistory, convVars, serviceVars,
                  fileVars >>

\* The body of clear
TClear(t) ==
  /\ cthread[t].pc = "clear"
  /\ TComplete(t, "clear", clear(cache, access_order))
  /\ UNCHANGED << max_size, SeqHistory, convVars, serviceVars,
                  fileVars >>

\* size(): the thread takes no lock.
TSize(t) ==
  /\ cthread[t].pc = "idle"
  /\ last' = [op |-> "size", key |-> 0, value |-> None, ret |-> None,
              n |-> size(cache), raised |-> "", was |-> NoFound]
  /\ UNCHANGED << max_size, cache, access_order, lock, cthread, SeqHistory,
                  convVars, serviceVars,
                  fileVars >>

NextConc ==
  \E t \in Threads :
    \/ \E k \in CacheKeys : TBegin(t, "get", k, None)
    \/ \E k \in CacheKeys : \E v \in CacheValues : TBegin(t, "put", k, v)
    \/ TBegin(t, "clear", 0, None)
    \/ TGet(t)
    \/ TPutEvict(t)
    \/ TPutStore(t)
    \/ TClear(t)
    \/ TSize(t)

SpecConc == InitAnyCache /\ [][NextConc]_vars

\* ---------------------------------------- the basic endpoint's files
\* The requests that pass the validation of generate_tts, in index mode
\* and in upload mode.
TtsTraffic == { r \in Requests : r.ep = "tts" /\ generate_tts(r).error = "" }
UploadMode(r) == r.index = None /\ r.prompt_audio

\* The clock advances.
Tick ==
  /\ now < MaxTime
  /\ now' = now + 1
  /\ UNCHANGED << prompt_path, output_path, temp_files, fs, cacheVars,
                  convVars, serviceVars >>

\* generate_tts for a request that passes validation, to its first
\* suspension: in upload mode it saves the upload; it names the output
\* file and calls generate_speech.
TtsArrive(r) ==
  \E j \in Req :
    /\ FreeJob(j)
    /\ prompt_path' = [prompt_path EXCEPT ![j] =
                         IF UploadMode(r) THEN UploadPath(now)
                         ELSE get_prompt_path(r.index)]
    /\ fs' = IF UploadMode(r) THEN write(fs, UploadPath(now), Upload(j))
             ELSE fs
    /\ output_path' = [output_path EXCEPT ![j] = OutputPath(now)]
    /\ temp_files' = [temp_files EXCEPT ![j] =
                        IF UploadMode(r) THEN {UploadPath(now), OutputPath(now)}
                        ELSE {OutputPath(now)}]
    /\ generate_speech(j, r.text)
    /\ UNCHANGED << now, watch >>

\* tts.infer ends in the executor thread: it has written the audio to
\* output_path and returns the path, or it raises.
TtsThreadEnd(j, ok) ==
  /\ thread[j] = "running"
  /\ InBody(j)
  /\ thread' = [thread EXCEPT ![j] = IF ok THEN "returned" ELSE "raised"]
  /\ backend' = [backend EXCEPT ![j] =
                   IF ok THEN Returned("str", output_path[j])
                   ELSE Raised("RuntimeError", "CUDA out of memory")]
  /\ fs' = IF ok THEN write(fs, output_path[j], Audio(j)) ELSE fs
  /\ UNCHANGED << sem, current_tasks, total_requests, pc, tier, result, calls,
                  admitted, watch, response, ops, cacheVars, convVars,
                  now, prompt_path, output_path, temp_files >>

\* generate_speech is resumed with the executor's outcome and returns, and
\* generate_tts runs to its end: it reads the output file if there is
\* one, removes its temporary files and answers.
TtsResume(j) ==
  /\ InBody(j)
  /\ thread[j] \in {"returned", "raised"}
  /\ LeaveBody(j)
  /\ pc' = [pc EXCEPT ![j] = "done"]
  /\ result' = [result EXCEPT ![j] =
                  IF thread[j] = "returned" THEN "ok" ELSE "failed"]
  /\ thread' = [thread EXCEPT ![j] = "none"]
  /\ backend' = [backend EXCEPT ![j] = NoOutcome]
  /\ response' = [response EXCEPT ![j] = RespondFrom(Return(backend[j]), fs)]
  /\ tier' = [tier EXCEPT ![j] = None]
  /\ fs' = remove_all(fs, temp_files[j])
  /\ prompt_path' = [prompt_path EXCEPT ![j] = None]
  /\ output_path' = [output_path EXCEPT ![j] = None]
  /\ temp_files' = [temp_files EXCEPT ![j] = {}]
  /\ UNCHANGED << total_requests, calls, admitted, watch, ops, cacheVars,
                  convVars, now >>

NextFiles ==
  \/ Tick
  \/ \E r \in TtsTraffic : TtsArrive(r)
  \/ \E j \in Req : Wakeup(j)
  \/ \E j \in Req : ThreadStart(j)
  \/ \E j \in Req : \E ok \in BOOLEAN : TtsThreadEnd(j, ok)
  \/ \E j \in Req : TtsResume(j)

\* No request is observed apart from those of the traffic.
InitTts == Init /\ watch.req = QuietRequest

SpecFiles == InitTts /\ [][NextFiles]_vars

\* ------------------------------------------------------ the converter
\* The dicts the endpoints pass: generate_tts its three form fields,
\* generate_tts_emotion the beam size.
generate_tts_params(sample_method, sampling, beam_size) ==
  [sample_method |-> sample_method, sampling |-> sampling,
   beam_size |-> beam_size]
generate_tts_emotion_params(beam_size) == [beam_size |-> beam_size]

\* A call of the converter with the dict `params`.
Convert ==
  /\ bundle = NoBundle
  /\ bundle' = convert_glm_to_indextts(params)
  /\ UNCHANGED << params, cacheVars, serviceVars, fileVars >>

\* The converter is called once, with any legacy map.
InitAnyParams ==
  /\ InitQuiet
  /\ InitCache(MaxSize)
  /\ params \in LegacyInputs
  /\ bundle = NoBundle

SpecConv == InitAnyParams /\ [][Convert]_vars

\* ------------------------------------------------------------- claims
\* The last method called was a put that returned.
PutDone == last.op = "put" /\ last.raised = ""
\* The last method called found the cache full.
WasFull == last.was.n = max_size
SumCapacity == MaxShort + MaxMedium + MaxLong
InFlight == { j \in Req : InBody(j) }
\* The tier of the observed request's text.
WatchTier == get_semaphore(watch.req.text.len)
\* The step in which the observed request is handled.
WatchHandled == ~watch.seen /\ watch'.seen
AdmissionState == << sem, current_tasks, total_requests, pc, thread, calls, admitted >>

\* C1: at most Capacity(t) calls are inside the `async with` body of tier
\* t at any time, and a call that waited for tier t enters the body only
\* from a state in which fewer than Capacity(t) calls hold t.
C1_TierBound ==
  /\ [](\A t \in Tiers : Cardinality(Holders(t)) <= Capacity(t))
  /\ [][\A j \in Req :
          (pc[j] = "waiting" /\ pc'[j] = "awaiting")
            => Cardinality(Holders(tier[j])) < Capacity(tier[j])]_vars
\* A tier is full and a further call of that tier is suspended.
C1_Witness ==
  \E t \in Tiers : \E j \in Req :
    /\ Cardinality(Holders(t)) = Capacity(t)
    /\ pc[j] = "waiting" /\ tier[j] = t

\* C2: whenever a call leaves the body (the backend returned, raised, or
\* the call was cancelled) its tier gets the permit back in that step; a
\* backend that raised gives the result "failed"; and a tier no call holds
\* has all its permits, so the next call of that tier is admitted at once.
C2_SlotReturnedOnEveryExit ==
  /\ [][\A j \in Req :
          (InBody(j) /\ pc'[j] # "awaiting")
            => /\ sem'[tier[j]] = sem[tier[j]] + 1
               /\ (thread[j] = "raised" /\ pc'[j] = "done")
                    => result'[j] = "failed"]_vars
  /\ [](\A t \in Tiers : Holders(t) = {} => ~locked(sem, t))
\* The observed Long-tier call failed in the backend and another Long-tier
\* call is in the body.
C2_Witness ==
  \E k \in Req :
    /\ watch.job \in Req /\ watch.job # k
    /\ WatchTier = "long"
    /\ result[watch.job] = "failed"
    /\ InBody(k) /\ tier[k] = "long"

\* C3: at most Capacity(t) backend calls of tier t execute at any time,
\* also after a cancellation.
C3_BackendBound ==
  \A t \in Tiers : Cardinality(Executing(t)) <= Capacity(t)

\* C4: current_tasks is the number of calls inside the body, over all
\* tiers; it is at most the sum of the capacities and is 0 when no call is
\* in flight.
C4_InFlightCounter ==
  /\ current_tasks = Cardinality(InFlight)
  /\ current_tasks <= SumCapacity
  /\ (InFlight = {} => current_tasks = 0)
\* One call has completed with a failure, one was cancelled in the body,
\* and none is in flight.
C4_Witness ==
  /\ InFlight = {}
  /\ \E j \in Req : result[j] = "failed"
  /\ \E j \in Req : pc[j] = "cancelled" /\ j \in admitted

\* C5: for every tier, free permits + calls holding the tier = capacity,
\* and the free permits stay within 0 .. capacity.
C5_PermitsConserved ==
  \A t \in Tiers :
    /\ sem[t] + Cardinality(Holders(t)) = Capacity(t)
    /\ 0 <= sem[t] /\ sem[t] <= Capacity(t)
\* Capacity-many Short calls were admitted and have released, and
\* capacity-many further Short calls hold the tier.
C5_Witness ==
  /\ Cardinality(Holders("short")) = Capacity("short")
  /\ Cardinality({ j \in admitted : pc[j] \in {"done", "cancelled"} })
       >= Capacity("short")
  /\ \A j \in Req : tier[j] \in {"short", None}
  /\ watch.job \in Req /\ WatchTier = "short"

\* C6: a call cancelled while it waits for the semaphore changes no
\* permit and no counter; a call cancelled inside the body returns its
\* permit and decrements current_tasks by one, in that step; a cancelled
\* call takes no further step.
C6_CancelKeepsAdmissionState ==
  [][\A j \in Req :
       /\ (pc[j] = "waiting" /\ pc'[j] = "cancelled")
            => UNCHANGED << sem, current_tasks, total_requests, admitted >>
       /\ (pc[j] = "awaiting" /\ pc'[j] = "cancelled")
            => /\ sem' = [sem EXCEPT ![tier[j]] = @ + 1]
               /\ current_tasks' = current_tasks - 1
               /\ total_requests' = total_requests
       /\ pc[j] = "cancelled" => pc'[j] = "cancelled"]_vars
\* One call was cancelled while waiting, another while its backend call
\* was running (and still is).
C6_Witness ==
  \E j, k \in Req :
    /\ pc[j] = "cancelled" /\ j \notin admitted
    /\ pc[k] = "cancelled" /\ thread[k] = "running"

\* C7: a request whose text is empty or only whitespace is answered
\* EMPTY_TEXT in the step that handles it, makes no generate_speech call,
\* and that step changes no permit, counter, call or thread.
C7_EmptyTextRejected ==
  /\ []((watch.seen /\ (watch.req.text.len = 0
                         \/ watch.req.text.len = watch.req.text.pad))
          => (watch.out.error = "EMPTY_TEXT" /\ watch.job = 0))
  /\ [][(WatchHandled /\ (watch.req.text.len = 0
                           \/ watch.req.text.len = watch.req.text.pad))
          => UNCHANGED AdmissionState]_vars
\* A whitespace-only text was rejected while another call was in flight.
C7_Witness ==
  /\ watch.seen
  /\ watch.req.text.len > 0 /\ watch.req.text.len = watch.req.text.pad
  /\ watch.out.error = "EMPTY_TEXT"
  /\ current_tasks > 0

\* The request names a speaker or emotion index that is in neither table
\* it is looked up in.
UnknownReference(r) ==
  \/ (r.index # None /\ r.index \notin DOMAIN Prompts)
  \/ (r.emo_index # None
        /\ r.emo_index \notin (DOMAIN Emotions \cup DOMAIN Prompts))
\* The request carries an emo_vector field that is a JSON array of
\* EmoVecLen elements.
GoodVec(r) == r.emo_vector.kind = "list" /\ r.emo_vector.n = EmoVecLen
NonEmptyText(r) == r.text.len > r.text.pad

\* C8: on every endpoint a request (with a non-empty text and no or a
\* well-formed emotion vector) that names an unknown speaker or emotion
\* index is answered with an index-not-found error and makes no
\* generate_speech call.
C8_UnknownReferenceRejected ==
  (/\ watch.seen
   /\ NonEmptyText(watch.req)
   /\ (watch.req.emo_vector = NoVec \/ GoodVec(watch.req))
   /\ UnknownReference(watch.req))
    => /\ watch.out.error \in {"INDEX_NOT_FOUND", "EMO_INDEX_NOT_FOUND"}
       /\ watch.job = 0

\* C9: a request whose emo_vector is present and is not a JSON array of
\* EmoVecLen elements makes no generate_speech call and changes no permit,
\* counter, call or thread; unless its text or an index was refused first
\* its error is INVALID_EMO_VECTOR(_FORMAT).  A request that passes
\* validation with an array of EmoVecLen elements hands generate_speech
\* that array.
C9_EmoVectorValidated ==
  /\ []((watch.seen /\ watch.req.emo_vector # NoVec /\ ~GoodVec(watch.req))
          => /\ watch.job = 0
             /\ watch.out.error \in
                  {"EMPTY_TEXT", "INDEX_NOT_FOUND", "EMO_INDEX_NOT_FOUND",
                   "INVALID_EMO_VECTOR", "INVALID_EMO_VECTOR_FORMAT"}
             /\ (NonEmptyText(watch.req) /\ ~UnknownReference(watch.req))
                  => watch.out.error \in
                       {"INVALID_EMO_VECTOR", "INVALID_EMO_VECTOR_FORMAT"})
  /\ []((watch.seen /\ GoodVec(watch.req) /\ watch.job # 0)
          => watch.out.emo_vector = [type |-> "list", len |-> watch.req.emo_vector.n])
  /\ []((watch.seen /\ GoodVec(watch.req) /\ NonEmptyText(watch.req)
           /\ watch.req.index \in DOMAIN Prompts
           /\ watch.req.emo_index \in {None} \cup DOMAIN Emotions)
          => watch.job # 0)
  /\ [][(WatchHandled /\ watch.req.emo_vector # NoVec /\ ~GoodVec(watch.req))
          => UNCHANGED AdmissionState]_vars
\* An array of EmoVecLen + 1 elements was refused while another call was in
\* flight.
C9_Witness ==
  /\ watch.seen
  /\ watch.req.emo_vector.kind = "list" /\ watch.req.emo_vector.n > EmoVecLen
  /\ watch.out.error = "INVALID_EMO_VECTOR"
  /\ current_tasks > 0

\* C10 as claimed: every admitted call that has ended invoked the backend
\* exactly once.
C10_ExactlyOncePerAdmittedCall ==
  \A j \in admitted : pc[j] \in {"done", "cancelled"} => calls[j] = 1
\* C10 as amended: no call invokes the backend more than once; a call that
\* returned a result invoked it exactly once; only an admitted call
\* invokes it; a backend call starts only while its call is in the body,
\* and no work item is left to start after the call has left the body.
C10_BackendOncePerReturnedCall ==
  /\ [](\A j \in Req :
          /\ calls[j] <= 1
          /\ pc[j] = "done" => calls[j] = 1
          /\ calls[j] > 0 => j \in admitted
          /\ thread[j] = "queued" => InBody(j))
  /\ [][\A j \in Req : calls'[j] # calls[j] => (InBody(j) /\ InBody(j)')]_vars
\* A call returned "failed" after its one backend call raised.
C10_Witness ==
  \E j \in Req : pc[j] = "done" /\ result[j] = "failed" /\ calls[j] = 1

\* C11: when the backend raised, generate_speech returns success False,
\* no artifact and the exception's text as error detail, and the endpoint
\* answers with success False, no audio and that same text as its error.
C11_BackendErrorForwarded ==
  [][\A j \in Req :
       (InBody(j) /\ thread[j] = "raised" /\ pc'[j] = "done")
         => /\ result'[j] = "failed"
            /\ ~Return(backend[j]).success
            /\ Return(backend[j]).result = None
            /\ Return(backend[j]).error =
                 (IF backend[j].type = "KeyError" THEN "'spk'"
                  ELSE backend[j].text)
            /\ ~response'[j].success
            /\ response'[j].audio_base64 = None
            /\ response'[j].error = Return(backend[j]).error]_vars
\* The request was answered with the text of the RuntimeError its backend
\* call raised.
C11_Witness ==
  \E j \in Req :
    /\ pc[j] = "done" /\ result[j] = "failed"
    /\ ~response[j].success
    /\ response[j].error = "CUDA out of memory"

\* C12: when a call whose backend raised is resumed, it ends with the
\* result "failed" (it returns, it does not raise), and the step changes
\* no other call: every other call keeps its position, tier and thread,
\* the holders of every tier are the former ones without the failed call,
\* only its own permit is returned, and current_tasks is the number of
\* the other calls in flight.
C12_FaultContained ==
  [][\A j \in Req :
       (thread[j] = "raised" /\ thread'[j] # "raised" /\ pc'[j] # "cancelled")
         => /\ pc'[j] = "done" /\ result'[j] = "failed"
            /\ \A k \in Req \ {j} :
                 pc'[k] = pc[k] /\ tier'[k] = tier[k] /\ thread'[k] = thread[k]
            /\ \A t \in Tiers :
                 /\ { k \in Req : pc'[k] = "awaiting" /\ tier'[k] = t }
                      = Holders(t) \ {j}
                 /\ sem'[t] = sem[t] + (IF t = tier[j] THEN 1 ELSE 0)
            /\ current_tasks' = Cardinality(InFlight \ {j})
            /\ total_requests' = total_requests]_vars
\* One call has failed and another call is still in flight with its
\* permit and its count.
C12_Witness ==
  \E j, k \in Req :
    /\ pc[j] = "done" /\ result[j] = "failed"
    /\ InBody(k) /\ current_tasks = 1
    /\ sem[tier[k]] = Capacity(tier[k]) - 1

\* The error codes of the validation failures, by failure class.
ClassCodes ==
  [EmptyInput |-> {"EMPTY_TEXT"},
   UnknownReference |-> {"INDEX_NOT_FOUND", "EMO_INDEX_NOT_FOUND",
                         "MISSING_PROMPT"},
   InvalidParameter |-> {"INVALID_EMO_VECTOR", "INVALID_EMO_VECTOR_FORMAT"}]
\* An error value that names no failure class: absent, empty, or one of
\* the endpoint's fallback texts.
GenericCodes == {None, "", "Unknown error", "Generation failed"}

\* C13: a request refused in validation is answered with a code of its
\* failure class, and a request whose generate_speech call ended without
\* an artifact is answered with success False and an error that is neither
\* missing nor generic nor the code of a validation class.
C13_FailureCodeIdentifiesClass ==
  /\ (watch.seen /\ watch.job = 0)
       => \E c \in DOMAIN ClassCodes : watch.out.error \in ClassCodes[c]
  /\ \A j \in Req :
       (pc[j] = "done" /\ ~response[j].success)
         => /\ response[j].error \notin GenericCodes
            /\ \A c \in DOMAIN ClassCodes : response[j].error \notin ClassCodes[c]
  /\ \A j \in Req :
       (pc[j] = "done" /\ response[j].success) => response[j].audio_base64 # None

C15_AcquireOnlyDelays ==
  /\ [][\A j \in Req :
          pc[j] = "waiting" => pc'[j] \in {"waiting", "awaiting", "cancelled"}]_vars
  /\ \A j \in Req :
       /\ (pc[j] = "waiting") ~> (j \in admitted \/ pc[j] = "cancelled")
       /\ (pc[j] \in {"waiting", "awaiting"})
            ~> ((pc[j] = "done" /\ response[j] # NoResponse)
                  \/ pc[j] = "cancelled")
\* A call waits for a tier whose only holder's backend call has raised.
C15_Witness ==
  \E j, k \in Req :
    /\ pc[j] = "waiting"
    /\ Holders(tier[j]) = {k} /\ thread[k] = "raised"

\* Tier t has a free slot: fewer calls hold it than its capacity.
FreeSlot(t) == Cardinality(Holders(t)) < Capacity(t)

\* C16: whether a call of tier t is admitted depends on tier t alone.  In
\* every state, whatever calls hold or wait for the other tiers: a request
\* whose tier has a free slot is admitted in the step in which it arrives,
\* a waiting call whose tier has a free slot can be resumed into the body,
\* and a tier's semaphore is locked exactly when its own holders are as
\* many as its capacity.
C16_TiersIndependent ==
  /\ \A k \in Req :
       FreeJob(k)
         => \A r \in Traffic :
              FreeSlot(get_semaphore(r.text.len))
                => ENABLED (Arrive(r, FALSE) /\ pc'[k] = "awaiting")
  /\ \A k \in Req :
       (pc[k] = "waiting" /\ FreeSlot(tier[k]))
         => ENABLED (Wakeup(k) /\ pc'[k] = "awaiting")
  /\ \A t \in Tiers : locked(sem, t) <=> ~FreeSlot(t)
\* One tier is full and a call of another tier is in the body.
C16_Witness ==
  \E j, k \in Req :
    /\ InBody(j) /\ InBody(k) /\ tier[j] # tier[k]
    /\ ~FreeSlot(tier[j])

\* The tier choice for every length up to MaxTextLen agrees with the
\* thresholds.
TierTable ==
  \A L \in 0 .. MaxTextLen :
    /\ get_semaphore(L) \in Tiers
    /\ get_semaphore(L) = "short" <=> L <= ShortMax
    /\ get_semaphore(L) = "medium" <=> (ShortMax < L /\ L <= MediumMax)
    /\ get_semaphore(L) = "long" <=> L > MediumMax

\* C17: get_semaphore chooses Short iff L <= 100, Medium iff 100 < L <=
\* 300 and Long iff L > 300, for every length L; and the tier a call of
\* the service runs in is the one chosen for the length of its text,
\* whatever the state of the service when it arrives.
C17_TierByLength ==
  /\ TierTable
  /\ (watch.job \in Req /\ tier[watch.job] # None)
       => /\ tier[watch.job] = "short" <=> watch.req.text.len <= ShortMax
          /\ tier[watch.job] = "medium"
               <=> (ShortMax < watch.req.text.len
                      /\ watch.req.text.len <= MediumMax)
          /\ tier[watch.job] = "long" <=> watch.req.text.len > MediumMax
\* A call with a text of exactly MediumMax characters holds the Medium
\* tier while another call is in flight.
C17_Witness ==
  /\ watch.job \in Req /\ InBody(watch.job)
  /\ watch.req.text.len = MediumMax
  /\ tier[watch.job] = "medium"
  /\ current_tasks = 2

\* C18: total_requests is the number of calls ever admitted.  A step
\* leaves it unchanged or adds one; it adds one exactly in the steps in
\* which a call enters the body, together with current_tasks + 1; so no
\* release, cancellation, backend step or rejected request changes it.
C18_LifetimeCounter ==
  /\ [](total_requests = Cardinality(admitted))
  /\ [][(total_requests' \in {total_requests, total_requests + 1})
         /\ ((total_requests' = total_requests + 1)
               <=> (\E j \in Req : pc[j] # "awaiting" /\ pc'[j] = "awaiting"))
         /\ ((total_requests' = total_requests + 1)
               => (current_tasks' = current_tasks + 1))]_vars
\* Two calls were admitted and have ended, and the observed request was
\* refused in validation.
C18_Witness ==
  /\ total_requests = 2 /\ current_tasks = 0
  /\ watch.seen /\ watch.job = 0
  /\ \E j \in Req : pc[j] = "cancelled" /\ j \in admitted

\* C19: in every state the three capacity fields of get_stats are the
\* capacities the controller was constructed with.
C19_StatsReportCapacity ==
  /\ get_stats.max_concurrent_short = Capacity("short")
  /\ get_stats.max_concurrent_medium = Capacity("medium")
  /\ get_stats.max_concurrent_long = Capacity("long")

\* The counter after the calls of h, by the claim's rule: + 1 for an
\* increment, - 1 for a decrement above zero, unchanged for one at zero.
RECURSIVE Replay(_)
Replay(h) ==
  IF h = << >> THEN 0
  ELSE IF h[Len(h)] = "increment_task" THEN Replay(SubSeq(h, 1, Len(h) - 1)) + 1
  ELSE IF Replay(SubSeq(h, 1, Len(h) - 1)) = 0 THEN 0
  ELSE Replay(SubSeq(h, 1, Len(h) - 1)) - 1

\* C20: after any sequence of increment_task and decrement_task calls
\* current_tasks is not negative; a decrement_task at zero leaves it at
\* zero; and a decrement_task is possible in every state (it does not
\* raise).
C20_CounterFloor ==
  /\ current_tasks >= 0
  /\ current_tasks = Replay(ops)
  /\ Len(ops) < MaxOps
       => ENABLED (CtlDecrement
                    /\ current_tasks' = IF current_tasks = 0 THEN 0
                                        ELSE current_tasks - 1)
\* After one increment_task, decrement_task was called twice.
C20_Witness ==
  /\ Len(ops) = 3
  /\ ops[1] = "increment_task"
  /\ ops[2] = "decrement_task" /\ ops[3] = "decrement_task"
  /\ current_tasks = 0

\* C21: after any sequence of get, put and clear the cache holds at most
\* max_size entries.
C21_SizeBound == len(cache) <= max_size
\* A put of a new key into a full cache has returned.
C21_Witness ==
  PutDone /\ WasFull /\ ~last.was.held /\ max_size = MaxSize

\* The step is a call put(k, v) for a key k the cache does not hold.
PutsNewKey == last'.op = "put" /\ last'.key \notin DOMAIN cache
\* The entries of `keys` are afterwards what they were.
Kept(keys) ==
  keys \subseteq DOMAIN cache' /\ \A k \in keys : cache'[k] = cache[k]
\* The step stores the entry of its call and, of the entries before,
\* removes exactly those of `gone`.
StoresAndRemoves(gone) ==
  /\ DOMAIN cache' = (DOMAIN cache \ gone) \cup {last'.key}
  /\ cache'[last'.key] = last'.value
  /\ Kept(DOMAIN cache \ (gone \cup {last'.key}))

\* C22: a put of a key that is not in the cache removes, when the cache
\* holds max_size entries, exactly the entry least recently touched by a
\* get or put and then stores the new one; below max_size it removes
\* nothing and stores the new one.
C22_EvictsLRU ==
  [][PutsNewKey =>
       IF len(cache) = max_size
         THEN recency # << >> /\ StoresAndRemoves({Head(recency)})
         ELSE StoresAndRemoves({})]_vars
\* The same for the caches that can hold an entry.
C22_EvictsLRU_Positive ==
  [][(PutsNewKey /\ max_size >= 1) =>
       IF len(cache) = max_size
         THEN recency # << >> /\ StoresAndRemoves({Head(recency)})
         ELSE StoresAndRemoves({})]_vars
\* A put into a full cache evicted an entry that was not the one put
\* first: a get or a put had touched that one again.
C22_Witness ==
  /\ PutDone /\ WasFull /\ max_size = MaxSize
  /\ ~last.was.held
  /\ last.was.oldest \notin DOMAIN cache
  /\ touch.active /\ touch.key \in DOMAIN cache

\* C23: a get that hits makes its key the most recently used one, and
\* while new distinct keys are put after it, its entry is evicted only
\* when every other entry the cache held at the hit has been evicted.
C23_GetTouches ==
  /\ (last.op = "get" /\ last.key \in DOMAIN cache)
       => (access_order # << >> /\ access_order[Len(access_order)] = last.key)
  /\ (touch.active /\ touch.key \notin DOMAIN cache)
       => touch.others \cap DOMAIN cache = {}
\* The get hit the least recently touched entry of a full cache, and the
\* puts after it have evicted every other entry while that one is kept.
C23_Witness ==
  /\ touch.active /\ touch.oldest /\ max_size = MaxSize
  /\ Cardinality(touch.others) = max_size - 1
  /\ touch.key \in DOMAIN cache
  /\ touch.others # {} /\ touch.others \cap DOMAIN cache = {}
  /\ PutDone
\* One more put of a new key has then evicted the entry of the hit.
C23_WitnessEvicted ==
  /\ touch.active /\ touch.oldest /\ max_size = MaxSize
  /\ touch.others # {} /\ touch.key \notin DOMAIN cache

\* C24: a put(k, v) for a key k the cache holds replaces the value of k
\* by v, makes k the most recently used entry, removes no entry and leaves
\* the number of entries as it was, also in a full cache.
C24_PutExisting ==
  [][(last'.op = "put" /\ last'.key \in DOMAIN cache) =>
       (/\ StoresAndRemoves({})
        /\ DOMAIN cache' = DOMAIN cache
        /\ len(cache') = len(cache)
        /\ access_order' # << >>
        /\ access_order'[Len(access_order')] = last'.key
        /\ recency' = access_order')]_vars
\* A put for the least recently used key of a full cache has returned.
C24_Witness ==
  /\ PutDone /\ WasFull /\ max_size = MaxSize
  /\ last.was.oldest = last.key
  /\ cache[last.key] = last.value
  /\ access_order[1] # last.key

\* C25: after clear(), size() returns 0 and get returns None for every
\* key that was cached before, and the next max_size new keys that are
\* put are all stored with nothing evicted.
C25_ClearEmpties ==
  /\ last.op = "clear" =>
       (/\ size(cache) = 0
        /\ \A k \in cleared.prior : get(cache, access_order, k).ret = None)
  /\ cleared.active =>
       (/\ DOMAIN cache = cleared.added
        /\ \A k \in cleared.prior \ cleared.added :
             get(cache, access_order, k) = Outcome(cache, access_order, None, ""))
\* A full cache was cleared and has taken max_size entries since, some
\* of them for new keys; a key it held before the clear is not in it.
C25_Witness ==
  /\ cleared.active /\ max_size = MaxSize
  /\ Cardinality(cleared.prior) = max_size
  /\ Cardinality(cleared.added) = max_size
  /\ cleared.added \ cleared.prior # {}
  /\ cleared.prior \ cleared.added # {}

\* The numbers of entries the cache has between two operations, around
\* the current state: the number now when no method is running, else the
\* number the running method found and the number it leaves.
CountAfter(t) ==
  CASE cthread[t].pc = "put" ->
         len(put(cache, access_order, max_size, cthread[t].key,
                 cthread[t].value).cache)
    [] cthread[t].pc = "put_store" ->
         len(put_store(cache, access_order, cthread[t].key,
                       cthread[t].value).cache)
    [] cthread[t].pc = "clear" -> 0
    [] OTHER -> len(cache)
AtomicCounts ==
  IF lock = 0 THEN {len(cache)} ELSE {cthread[lock].n, CountAfter(lock)}

\* C26: get, put, clear and size all take effect atomically; whenever a
\* thread may call size(), the number it returns is one the cache had
\* before or after the operation that is running at that time.
C26_SizeAtomic ==
  \A t \in Threads : cthread[t].pc = "idle" => size(cache) \in AtomicCounts
\* size() has returned a number the full cache had neither before nor
\* after the put that was running.
C26_TornSize ==
  /\ last.op = "size" /\ lock # 0
  /\ cthread[lock].pc = "put_store"
  /\ cthread[lock].n = max_size
  /\ last.n = max_size - 1
  /\ CountAfter(lock) = max_size

\* The converter was called and returned a dict.
Translated == bundle.raised = ""
\* The input has the field and the output has the field, with that value.
Has(d, k, v) == k \in DOMAIN d /\ d[k] = v
\* The input names the sample method m.
Method(m) == Has(params, "sample_method", PyStr(m))

\* C27: for an input whose sample method is "topk", the converter returns
\* do_sample = True and top_k = the input's sampling value, or 25 when the
\* input has none.
C27_TopK ==
  (bundle # NoBundle /\ Method("topk")) =>
    /\ Translated
    /\ Has(bundle.result, "do_sample", PyTrue)
    /\ \A k \in Samplings :
         Has(params, "sampling", k) => Has(bundle.result, "top_k", k)
    /\ "sampling" \notin DOMAIN params
         => Has(bundle.result, "top_k", PyInt(DefaultTopK))
\* A "topk" input with a sampling value other than the default was
\* converted.
C27_Witness ==
  /\ Translated /\ Method("topk")
  /\ Has(params, "sampling", PyInt(50))
  /\ Has(bundle.result, "top_k", PyInt(50))
\* A "topk" input without a sampling value was converted.
C27_WitnessDefault ==
  /\ Translated /\ Method("topk")
  /\ "sampling" \notin DOMAIN params
  /\ Has(bundle.result, "top_k", PyInt(DefaultTopK))

\* The input's sample method is "ras", named or by default.
MethodRas == Method("ras") \/ "sample_method" \notin DOMAIN params
\* The output's num_beams is the input's beam_size, and is absent when the
\* input has none.
BeamsCopied ==
  IF "beam_size" \in DOMAIN params
    THEN Has(bundle.result, "num_beams", params["beam_size"])
    ELSE "num_beams" \notin DOMAIN bundle.result

\* C28 as claimed: for an input whose sample method is "ras" (named or by
\* default) the converter returns do_sample = True and no top_k, whatever
\* other fields the input has, and num_beams = the input's beam_size.
C28_RasNoTopK ==
  (bundle # NoBundle /\ MethodRas) =>
    /\ Translated
    /\ Has(bundle.result, "do_sample", PyTrue)
    /\ "top_k" \notin DOMAIN bundle.result
    /\ BeamsCopied
\* C28 as amended: for such an input the converter returns do_sample =
\* True, num_beams = the input's beam_size, and top_k = the input's
\* sampling value when it has one; it returns no top_k when the input
\* has no sampling value.
C28_RasTopKFromSampling ==
  (bundle # NoBundle /\ MethodRas) =>
    /\ Translated
    /\ Has(bundle.result, "do_sample", PyTrue)
    /\ BeamsCopied
    /\ IF "sampling" \in DOMAIN params
         THEN Has(bundle.result, "top_k", params["sampling"])
         ELSE "top_k" \notin DOMAIN bundle.result
\* The dict that generate_tts builds from the defaults of its form fields
\* was converted: the output has top_k = 25.
C28_Witness ==
  /\ Translated
  /\ params = generate_tts_params(PyStr("ras"), PyInt(DefaultTopK), PyInt(1))
  /\ Has(bundle.result, "top_k", PyInt(DefaultTopK))
  /\ Has(bundle.result, "num_beams", PyInt(1))
\* The dict of generate_tts_emotion was converted: the output has
\* num_beams = 4 and no top_k.
C28_WitnessBeamOnly ==
  /\ Translated
  /\ params = generate_tts_emotion_params(PyInt(4))
  /\ Has(bundle.result, "num_beams", PyInt(4))
  /\ "top_k" \notin DOMAIN bundle.result

\* C29: the converter returns a dict, and raises nothing, for every legacy
\* map: also for one with fields missing, with an unrecognized sample
\* method, or with a sample_method that is None or not a string; and what
\* it returns is determined by the map.
C29_Total ==
  bundle # NoBundle =>
    (Translated /\ bundle = convert_glm_to_indextts(params))
\* The converter raised AttributeError for a sample_method that is None.
C29_Raised ==
  /\ Has(params, "sample_method", PyNone)
  /\ bundle = ConvertRaised("AttributeError")
\* An input with an unrecognized sample method was converted: the output
\* has neither do_sample nor top_k.
C29_Unrecognized ==
  /\ Translated /\ Method("greedy")
  /\ DOMAIN params = {"sample_method"}
  /\ DOMAIN bundle.result = DOMAIN Defaults

\* The defaults as documented: 0.8, 0.8, 10.0, 0.0 and 1500.
DocumentedDefaults ==
  [temperature |-> PyFloat(8), top_p |-> PyFloat(8),
   repetition_penalty |-> PyFloat(100), length_penalty |-> PyFloat(0),
   max_mel_tokens |-> PyInt(DefaultMaxMelTokens)]

\* C30: the dict the converter returns has temperature, top_p,
\* repetition_penalty, length_penalty and max_mel_tokens; each is the
\* value of the input's field of that name when the input has it, and
\* otherwise 0.8, 0.8, 10.0, 0.0 and 1500.
C30_Defaults ==
  Translated =>
    \A k \in DOMAIN DocumentedDefaults :
      Has(bundle.result, k,
          IF k \in DOMAIN params THEN params[k] ELSE DocumentedDefaults[k])
\* An input that supplies the temperature and max_mel_tokens and no other
\* field was converted.
C30_Witness ==
  /\ Translated
  /\ DOMAIN params = {"temperature", "max_mel_tokens"}
  /\ bundle.result["temperature"] = PyFloat(5)
  /\ bundle.result["max_mel_tokens"] = PyInt(600)
  /\ bundle.result["top_p"] = PyFloat(8)
  /\ bundle.result["repetition_penalty"] = PyFloat(100)
  /\ bundle.result["length_penalty"] = PyFloat(0)

\* The request of call j has named its files and is not yet answered.
Pending(j) == pc[j] \in {"waiting", "awaiting"}

\* C31: two requests that are pending at the same time never have the
\* same output path, nor a temporary file of the same path, also when
\* they arrive within the same second of the clock.
C31_DistinctPaths ==
  \A i \in Req : \A j \in Req :
    (i # j /\ Pending(i) /\ Pending(j)) =>
      (output_path[i] # output_path[j] /\ temp_files[i] \cap temp_files[j] = {})
\* Two pending requests arrived in one second at different ticks and
\* have the same output path.
C31_SamePath ==
  \E i \in Req : \E j \in Req :
    /\ i # j /\ Pending(i) /\ Pending(j)
    /\ output_path[i] = output_path[j]
    /\ output_path[i] = OutputPath(TicksPerSecond + 1)
    /\ now = TicksPerSecond + 1
\* A request was answered with the audio made for another request, whose
\* backend call overwrote its output file.
C31_Overwritten ==
  \E i \in Req : \E j \in Req :
    /\ i # j
    /\ response[i].success
    /\ response[i].audio_base64 = b64encode(Audio(j))
\* The backend call of a request returned the path of the file it wrote,
\* and the cleanup of another request has removed that file: the request
\* is about to be answered 'Unknown error'.
C31_Deleted ==
  \E j \in Req :
    /\ Pending(j)
    /\ backend[j] = Returned("str", output_path[j])
    /\ ~exists(fs, output_path[j])
    /\ RespondFrom(Return(backend[j]), fs).error = "Unknown error"
\* The upload of a pending request was overwritten by the upload of
\* another request.
C31_UploadOverwritten ==
  \E i \in Req : \E j \in Req :
    /\ i # j /\ Pending(i)
    /\ prompt_path[i] = UploadPath(now)
    /\ exists(fs, prompt_path[i])
    /\ read(fs, prompt_path[i]) = Upload(j)

\* The access order lists every key of the cache once and no other key.
C32_OrderMatchesKeys ==
  /\ { access_order[i] : i \in 1 .. Len(access_order) } = DOMAIN cache
  /\ Len(access_order) = len(cache)
\* A put that takes the eviction branch finds a first key in the access
\* order, and that key has an entry.
VictimFound ==
  (len(cache) >= max_size /\ DOMAIN cache # CacheKeys) =>
    (access_order # << >> /\ Head(access_order) \in DOMAIN cache)

\* C32: after any sequence of completed get, put and clear the access
\* order is a duplicate-free ordering of exactly the keys of the stored
\* entries, so that an eviction always finds a victim that is stored.
C32_OrderIsKeySet == C32_OrderMatchesKeys /\ VictimFound
\* A put took the eviction branch in an empty cache and raised.
C32_NoVictim ==
  /\ last.op = "put" /\ last.raised = "IndexError"
  /\ max_size = 0 /\ cache = EmptyCache /\ access_order = << >>
\* In the caches that can hold an entry an eviction finds its victim.
C32_VictimFound_Positive == max_size >= 1 => VictimFound

====
